---- MODULE Spec2Model ----
(***************************************************************************)
(* A model of the byte-level BPE tokenizer of src/regex_special_tokenizer.ts*)
(* (class RegexTokenizer): construction, training, encode_ordinary, encode  *)
(* with special tokens and decode; and of the tokenizers without chunks:    *)
(* BasicTokenizer of src/testing.ts and of src/unnamed/part_001, Trainer    *)
(* and Codec of src/unnamed/part_000.                                       *)
(*                                                                          *)
(* A text is a JavaScript string: a sequence of UTF-16 code units, written  *)
(* as a sequence of numbers.  A token chunk is a sequence of token ids.     *)
(* A Map is a sequence of entries in insertion order.                       *)
(***************************************************************************)
EXTENDS Integers, Sequences, FiniteSets, TLC

VARIABLES
  pc,                      \* "none" (no instance), "idle", "training", "encoding",
                           \* "merging"; "stats" and "counted" for get_stats alone
  variant,                 \* the class of the instance, "none" when there is none
  vocab_size,              \* #vocab_size
  regex,                   \* #regex: "nonspace" for /\S+/g, "gpt4" for GPT4_REGEX
  special_tokens,          \* #special_tokens: sequence of <<literal, id>>
  inverse_special_tokens,  \* #inverse_special_tokens: sequence of <<id, bytes>>
  merges,                  \* #merges: sequence of <<idx, <<left, right>>>>
  vocab,                   \* #vocab: function from token id to bytes
  stringChunks,            \* local of train / encode_ordinary
  tokenChunks,             \* local of train / encode_ordinary
  i,                       \* loop counter of train / encode_ordinary
  tokens,                  \* local of encode_ordinary's loop body
  stats,                   \* local of train's loop body
  corpus,                  \* the text of the last train call
  trained,                 \* the working chunks when the last train call ended
  trainEnd,                \* how it ended: "return", "break" or "throw"
  op,                      \* the last call that ended
  text,                    \* the text argument of the last encode call
  mode,                    \* the allowed_special argument of the last encode call
  encoded,                 \* what the last encode call returned
  arg,                     \* the argument of the last decode call
  decoded,                 \* what the last decode call returned
  err                      \* "none", or the error the last call threw

vars == <<pc, variant, vocab_size, regex, special_tokens, inverse_special_tokens, merges,
          vocab, stringChunks, tokenChunks, i, tokens, stats, corpus, trained,
          trainEnd, op, text, mode, encoded, arg, decoded, err>>

(***************************************************************************)
(* Bounds of the model.                                                    *)
(***************************************************************************)
\* the longest training text over the letter a and the space
MaxTrainLen == 7
\* the longest training text over the letters a and b
MaxPairLen == 6
\* the longest text, other than the corpus, given to encode_ordinary
MaxTextLen == 3
\* the longest such text with characters outside ASCII
MaxWideLen == 2
\* the longest text a tokenizer is trained on again, or trained on before encode
MaxRetrainLen == 4
\* the most pieces (characters or special literals) of a text given to encode
MaxPieces == 3
\* the largest vocab_size a tokenizer is constructed with
MaxVocabSize == 258
\* the longest chunk and the most chunks given to get_stats alone
MaxIdsLen == 3
MaxChunks == 2
\* the longest token list given to replace alone
MaxReplaceLen == 4
\* the longest text encoded to follow the loop of encode to its end
MaxLoopLen == 4
\* the longest token list given to decode of a class without chunks
MaxTokensLen == 3

\* the number of byte tokens: ids 0..255
BaseVocab == 256

(***************************************************************************)
(* Sequences.                                                              *)
(***************************************************************************)
RECURSIVE Flatten(_)
Flatten(ss) == IF ss = <<>> THEN <<>> ELSE Head(ss) \o Flatten(Tail(ss))

SeqsUpTo(S, n) == UNION {[1..k -> S] : k \in 0..n}

\* s[from..to], 1-based and inclusive
Slice(s, from, to) == SubSeq(s, from, to)

\* whether lit occurs in s at position p (1-based)
OccursAt(s, lit, p) ==
  /\ p + Len(lit) - 1 <= Len(s)
  /\ \A k \in 1..Len(lit) : s[p + k - 1] = lit[k]

\* String.prototype.includes
Includes(s, lit) == \E p \in 1..(Len(s) + 1) : OccursAt(s, lit, p)

(***************************************************************************)
(* TextEncoder and TextDecoder: UTF-8.                                     *)
(***************************************************************************)
IsHighSurrogate(c) == c >= 55296 /\ c <= 56319
IsLowSurrogate(c) == c >= 56320 /\ c <= 57343

\* the UTF-8 bytes of one code point
Utf8Bytes(cp) ==
  IF cp < 128 THEN <<cp>>
  ELSE IF cp < 2048 THEN <<192 + (cp \div 64), 128 + (cp % 64)>>
  ELSE IF cp < 65536 THEN
    <<224 + (cp \div 4096), 128 + ((cp \div 64) % 64), 128 + (cp % 64)>>
  ELSE <<240 + (cp \div 262144), 128 + ((cp \div 4096) % 64),
         128 + ((cp \div 64) % 64), 128 + (cp % 64)>>

\* new TextEncoder().encode(s): a lone surrogate becomes U+FFFD
RECURSIVE Utf8Encode(_)
Utf8Encode(s) ==
  IF s = <<>> THEN <<>>
  ELSE LET c == Head(s) IN
    IF IsHighSurrogate(c) /\ Len(s) >= 2 /\ IsLowSurrogate(s[2])
    THEN Utf8Bytes(65536 + (c - 55296) * 1024 + (s[2] - 56320))
           \o Utf8Encode(Tail(Tail(s)))
    ELSE IF IsHighSurrogate(c) \/ IsLowSurrogate(c)
    THEN Utf8Bytes(65533) \o Utf8Encode(Tail(s))
    ELSE Utf8Bytes(c) \o Utf8Encode(Tail(s))

IsCont(b, p, lo, hi) == p <= Len(b) /\ b[p] >= lo /\ b[p] <= hi

\* the code units of one code point
CodeUnits(cp) ==
  IF cp < 65536 THEN <<cp>>
  ELSE <<55296 + ((cp - 65536) \div 1024), 56320 + ((cp - 65536) % 1024)>>

\* the UTF-8 decoder from position p: an ill-formed sequence becomes U+FFFD
RECURSIVE Utf8DecodeFrom(_, _)
Utf8DecodeFrom(b, p) ==
  IF p > Len(b) THEN <<>>
  ELSE LET c == b[p] IN
    IF c < 128 THEN <<c>> \o Utf8DecodeFrom(b, p + 1)
    ELSE IF c >= 194 /\ c <= 223 THEN
      IF IsCont(b, p + 1, 128, 191)
      THEN CodeUnits((c - 192) * 64 + (b[p + 1] - 128)) \o Utf8DecodeFrom(b, p + 2)
      ELSE <<65533>> \o Utf8DecodeFrom(b, p + 1)
    ELSE IF c >= 224 /\ c <= 239 THEN
      LET lo == IF c = 224 THEN 160 ELSE 128
          hi == IF c = 237 THEN 159 ELSE 191
      IN IF ~IsCont(b, p + 1, lo, hi) THEN <<65533>> \o Utf8DecodeFrom(b, p + 1)
         ELSE IF ~IsCont(b, p + 2, 128, 191) THEN <<65533>> \o Utf8DecodeFrom(b, p + 2)
         ELSE CodeUnits((c - 224) * 4096 + (b[p + 1] - 128) * 64 + (b[p + 2] - 128))
                \o Utf8DecodeFrom(b, p + 3)
    ELSE IF c >= 240 /\ c <= 244 THEN
      LET lo == IF c = 240 THEN 144 ELSE 128
          hi == IF c = 244 THEN 143 ELSE 191
      IN IF ~IsCont(b, p + 1, lo, hi) THEN <<65533>> \o Utf8DecodeFrom(b, p + 1)
         ELSE IF ~IsCont(b, p + 2, 128, 191) THEN <<65533>> \o Utf8DecodeFrom(b, p + 2)
         ELSE IF ~IsCont(b, p + 3, 128, 191) THEN <<65533>> \o Utf8DecodeFrom(b, p + 3)
         ELSE CodeUnits((c - 240) * 262144 + (b[p + 1] - 128) * 4096
                          + (b[p + 2] - 128) * 64 + (b[p + 3] - 128))
                \o Utf8DecodeFrom(b, p + 4)
    ELSE <<65533>> \o Utf8DecodeFrom(b, p + 1)

\* new TextDecoder().decode(bytes): a leading byte order mark is dropped
Utf8Decode(b) ==
  IF Len(b) >= 3 /\ b[1] = 239 /\ b[2] = 187 /\ b[3] = 191
  THEN Utf8DecodeFrom(b, 4)
  ELSE Utf8DecodeFrom(b, 1)

(***************************************************************************)
(* The pre-tokenization patterns, on the characters U+0000..U+00FF, the    *)
(* byte order mark U+FEFF and the surrogates.                              *)
(***************************************************************************)
\* \s
IsSpace(c) == c \in {9, 10, 11, 12, 13, 32, 160, 65279}
\* [\r\n]
IsNewline(c) == c \in {10, 13}
\* \p{L}
IsLetter(c) ==
  \/ c >= 65 /\ c <= 90
  \/ c >= 97 /\ c <= 122
  \/ c \in {170, 181, 186}
  \/ c >= 192 /\ c <= 214
  \/ c >= 216 /\ c <= 246
  \/ c >= 248 /\ c <= 255
\* \p{N}
IsNumber(c) == (c >= 48 /\ c <= 57) \/ c \in {178, 179, 185, 188, 189, 190}
\* [^\s\p{L}\p{N}]
IsOther(c) == ~IsSpace(c) /\ ~IsLetter(c) /\ ~IsNumber(c)

\* the length of the longest run of characters of a class from position p
InClass(class, c) ==
  CASE class = "space" -> IsSpace(c)
    [] class = "nonspace" -> ~IsSpace(c)
    [] class = "newline" -> IsNewline(c)
    [] class = "letter" -> IsLetter(c)
    [] class = "number" -> IsNumber(c)
    [] class = "other" -> IsOther(c)

RECURSIVE RunLen(_, _, _)
RunLen(s, p, class) ==
  IF p <= Len(s) /\ InClass(class, s[p]) THEN 1 + RunLen(s, p + 1, class) ELSE 0

\* /\S+/g at position p: the length of the match, 0 for none
MatchNonSpace(s, p) == RunLen(s, p, "nonspace")

\* '([sSdDmMtT]|ll|LL|lL|Ll|ve|VE|vE|Ve|re|RE|rE|Re)
MatchContraction(s, p) ==
  IF s[p] # 39 THEN 0
  ELSE IF p + 1 <= Len(s) /\ s[p + 1] \in {115, 83, 100, 68, 109, 77, 116, 84} THEN 2
  ELSE IF /\ p + 2 <= Len(s)
          /\ \/ s[p + 1] \in {108, 76} /\ s[p + 2] \in {108, 76}
             \/ s[p + 1] \in {118, 86} /\ s[p + 2] \in {101, 69}
             \/ s[p + 1] \in {114, 82} /\ s[p + 2] \in {101, 69}
       THEN 3
  ELSE 0

\* [^\r\n\p{L}\p{N}]?\p{L}+
MatchWord(s, p) ==
  IF /\ ~IsNewline(s[p]) /\ ~IsLetter(s[p]) /\ ~IsNumber(s[p])
     /\ RunLen(s, p + 1, "letter") > 0
  THEN 1 + RunLen(s, p + 1, "letter")
  ELSE RunLen(s, p, "letter")

\* \p{N}{1,3}
MatchNumber(s, p) ==
  LET n == RunLen(s, p, "number") IN IF n > 3 THEN 3 ELSE n

\*  ?[^\s\p{L}\p{N}]+[\r\n]*
MatchPunct(s, p) ==
  LET q == IF s[p] = 32 /\ RunLen(s, p + 1, "other") > 0 THEN p + 1 ELSE p
      n == RunLen(s, q, "other")
  IN IF n = 0 THEN 0 ELSE (q - p) + n + RunLen(s, q + n, "newline")

\* the largest k <= n with a newline at s[p + k - 1], 0 for none
RECURSIVE LastNewline(_, _, _)
LastNewline(s, p, n) ==
  IF n = 0 THEN 0
  ELSE IF IsNewline(s[p + n - 1]) THEN n
  ELSE LastNewline(s, p, n - 1)

\* \s*[\r\n]
MatchLines(s, p) == LastNewline(s, p, RunLen(s, p, "space"))

\* \s+(?!\S)
MatchTrailingSpace(s, p) ==
  LET n == RunLen(s, p, "space") IN
  IF n = 0 THEN 0
  ELSE IF p + n > Len(s) THEN n
  ELSE n - 1

\* \s+
MatchSpace(s, p) == RunLen(s, p, "space")

\* GPT4_REGEX at position p: the first alternative that matches
MatchGpt4(s, p) ==
  IF MatchContraction(s, p) > 0 THEN MatchContraction(s, p)
  ELSE IF MatchWord(s, p) > 0 THEN MatchWord(s, p)
  ELSE IF MatchNumber(s, p) > 0 THEN MatchNumber(s, p)
  ELSE IF MatchPunct(s, p) > 0 THEN MatchPunct(s, p)
  ELSE IF MatchLines(s, p) > 0 THEN MatchLines(s, p)
  ELSE IF MatchTrailingSpace(s, p) > 0 THEN MatchTrailingSpace(s, p)
  ELSE MatchSpace(s, p)

MatchAt(rx, s, p) == IF rx = "gpt4" THEN MatchGpt4(s, p) ELSE MatchNonSpace(s, p)

\* [...text.matchAll(regex)].map(m => m[0]) from position p
RECURSIVE MatchAllFrom(_, _, _)
MatchAllFrom(rx, s, p) ==
  IF p > Len(s) THEN <<>>
  ELSE LET n == MatchAt(rx, s, p) IN
    IF n = 0 THEN MatchAllFrom(rx, s, p + 1)
    ELSE <<Slice(s, p, p + n - 1)>> \o MatchAllFrom(rx, s, p + n)

MatchAll(rx, s) == MatchAllFrom(rx, s, 1)

\* stringChunks.map(chunk => Array.from(encoder.encode(chunk)))
EncodeChunks(chunks) == [k \in 1..Len(chunks) |-> Utf8Encode(chunks[k])]

(***************************************************************************)
(* pack, combine, replace, get_stats, get_unique_pairs, get_top_pairs.     *)
(***************************************************************************)
RECURSIVE BitOr(_, _)
BitOr(a, b) ==
  IF a = 0 THEN b
  ELSE IF b = 0 THEN a
  ELSE (IF a % 2 = 1 \/ b % 2 = 1 THEN 1 ELSE 0) + 2 * BitOr(a \div 2, b \div 2)

\* (a << 16) | b on 32-bit integers, as its high and low 16 bits
pack(a, b) == <<BitOr(a % 65536, (b \div 65536) % 65536), b % 65536>>

\* a combine that joins its arguments in the wrong order
combineSwapped(a, b) == b \o a

combine(a, b) == a \o b

\* the loop of replace from index k (1-based)
RECURSIVE ReplaceFrom(_, _, _, _)
ReplaceFrom(toks, pair, replacement, k) ==
  IF k > Len(toks) THEN <<>>
  ELSE IF k < Len(toks) /\ toks[k] = pair[1] /\ toks[k + 1] = pair[2]
  THEN <<replacement>> \o ReplaceFrom(toks, pair, replacement, k + 2)
  ELSE <<toks[k]>> \o ReplaceFrom(toks, pair, replacement, k + 1)

\* a replace that writes the new token over the left token of every occurrence
\* of the pair and keeps the right token
replaceOverlapping(toks, pair, replacement) ==
  [k \in 1..Len(toks) |->
     IF k < Len(toks) /\ toks[k] = pair[1] /\ toks[k + 1] = pair[2]
     THEN replacement ELSE toks[k]]

\* a replace that writes the new token over both tokens of every occurrence of
\* the pair
replaceBoth(toks, pair, replacement) ==
  LET At(k) == k >= 1 /\ k < Len(toks) /\ toks[k] = pair[1] /\ toks[k + 1] = pair[2]
  IN [k \in 1..Len(toks) |-> IF At(k) \/ At(k - 1) THEN replacement ELSE toks[k]]

\* a replace that makes its pass from right to left
replaceFromRight(toks, pair, replacement) ==
  LET Reverse(t) == [k \in 1..Len(t) |-> t[Len(t) + 1 - k]]
  IN Reverse(ReplaceFrom(Reverse(toks), <<pair[2], pair[1]>>, replacement, 1))

replace(toks, pair, replacement) == ReplaceFrom(toks, pair, replacement, 1)

\* the index of key in a Map, 0 when absent
KeyIndex(map, key) ==
  IF \E k \in 1..Len(map) : map[k][1] = key
  THEN CHOOSE k \in 1..Len(map) :
         map[k][1] = key /\ \A j \in 1..(k - 1) : map[j][1] # key
  ELSE 0

\* Map.prototype.set: an existing key keeps its place
MapSet(map, key, val) ==
  IF KeyIndex(map, key) = 0 THEN Append(map, <<key, val>>)
  ELSE [map EXCEPT ![KeyIndex(map, key)] = <<key, val>>]

\* the last value of the loop counter of get_stats, as a 1-based index:
\* for (let i = 0; i < ids.length - 2; i++)
StatsLastIndex(ids) == Len(ids) - 2

\* The Map that the loop of get_stats leaves.  An entry that was in counts keeps
\* its place and grows by one for every index of the loop with its key; the other
\* keys follow in the order of their first index; every entry that the loop set
\* holds the pair of the last index with its key.
get_stats(ids, counts) ==
  LET n == StatsLastIndex(ids)
      key(k) == pack(ids[k], ids[k + 1])
      hits(packed) == {k \in 1..n : key(k) = packed}
      last(packed) == CHOOSE k \in hits(packed) : \A j \in hits(packed) : j <= k
      val(packed, before) ==
        [packed |-> packed,
         count |-> before + Cardinality(hits(packed)),
         arr |-> <<ids[last(packed)], ids[last(packed) + 1]>>]
      old == [e \in 1..Len(counts) |->
                IF hits(counts[e][1]) = {} THEN counts[e]
                ELSE <<counts[e][1], val(counts[e][1], counts[e][2].count)>>]
      IsFirst(k) ==
        /\ KeyIndex(counts, key(k)) = 0
        /\ \A j \in 1..(k - 1) : key(j) # key(k)
      rounds == IF n < 1 THEN <<>> ELSE [k \in 1..n |-> k]
      firsts == SelectSeq(rounds, IsFirst)
  IN old \o [m \in 1..Len(firsts) |-> <<key(firsts[m]), val(key(firsts[m]), 0)>>]

\* Array.from(stats.values())
MapValues(map) == [k \in 1..Len(map) |-> map[k][2]]

get_unique_pairs(ids) ==
  LET vals == MapValues(get_stats(ids, <<>>)) IN [k \in 1..Len(vals) |-> vals[k].arr]

\* Array.prototype.sort of entries <<key, value>> by ascending key: stable, so an
\* entry comes after the entries of smaller key and the earlier ones of equal key
StableSort(entries) ==
  LET rank(k) ==
        Cardinality({j \in 1..Len(entries) : entries[j][1] < entries[k][1]})
          + Cardinality({j \in 1..k : entries[j][1] = entries[k][1]})
  IN [r \in 1..Len(entries) |-> entries[CHOOSE k \in 1..Len(entries) : rank(k) = r]]

\* Array.from(counts.values()).sort((a, b) => b.count - a.count).slice(0, max)
get_top_pairs(counts, max) ==
  LET vals == MapValues(counts)
      sorted == StableSort([k \in 1..Len(vals) |-> <<0 - vals[k].count, vals[k]>>])
      n == IF Len(sorted) < max THEN Len(sorted) ELSE max
  IN [k \in 1..n |-> sorted[k][2]]

(***************************************************************************)
(* The special-token tables.                                               *)
(***************************************************************************)
DEFAULT_ALLOWED_SPECIAL ==
  << <<<<60, 124, 101, 110, 100, 111, 102, 116, 101, 120, 116, 124, 62>>, 100257>>,
     <<<<60, 124, 102, 105, 109, 95, 112, 114, 101, 102, 105, 120, 124, 62>>, 100258>>,
     <<<<60, 124, 102, 105, 109, 95, 109, 105, 100, 100, 108, 101, 124, 62>>, 100259>>,
     <<<<60, 124, 102, 105, 109, 95, 115, 117, 102, 102, 105, 120, 124, 62>>, 100260>>,
     <<<<60, 124, 101, 110, 100, 111, 102, 112, 114, 111, 109, 112, 116, 124, 62>>, 100276>> >>

\* a table in which one literal, <e>, is the start of a later one, <e>a
PREFIX_SPECIAL ==
  << <<<<60, 101, 62>>, 100257>>,
     <<<<60, 101, 62, 97>>, 100258>> >>

\* a table in which two literals, <e> and <f>, are bound to one id
SHARED_ID_SPECIAL ==
  << <<<<60, 101, 62>>, 100257>>,
     <<<<60, 102, 62>>, 100257>> >>

\* Map.prototype.has, Map.prototype.get
MapHas(map, key) == KeyIndex(map, key) # 0
MapGet(map, key) == map[KeyIndex(map, key)][2]

\* Array.from(map.keys())
MapKeys(map) == [k \in 1..Len(map) |-> map[k][1]]

\* the loop of register_special_tokens from entry k
RECURSIVE RegisterFrom(_, _, _)
RegisterFrom(table, inverse, k) ==
  IF k > Len(table) THEN inverse
  ELSE RegisterFrom(table,
                    MapSet(inverse, table[k][2], Utf8Encode(table[k][1])),
                    k + 1)

(***************************************************************************)
(* train: the statistics of one iteration.                                 *)
(***************************************************************************)
\* for (const tokenChunk of tokenChunks) get_stats(tokenChunk, stats)
RECURSIVE StatsOfChunks(_, _, _)
StatsOfChunks(chunks, counts, k) ==
  IF k > Len(chunks) THEN counts
  ELSE StatsOfChunks(chunks, get_stats(chunks[k], counts), k + 1)

TrainStats(chunks) == StatsOfChunks(chunks, <<>>, 1)

\* an id that leaves a gap after the first merge
MergeIdxSkipping(n) == BaseVocab + 2 * n

\* const idx = 256 + i
MergeIdx(n) == BaseVocab + n

\* the 256 byte entries train starts the vocabulary with
BaseVocabulary == [b \in 0..(BaseVocab - 1) |-> <<b>>]

\* a vocabulary entry that holds the two ids of the pair and not their bytes
VocabSetUnexpanded(v, idx, pair) == (idx :> <<pair[1], pair[2]>>) @@ v

\* this.#vocab.set(idx, combine(first, second))
VocabSet(v, idx, pair) == (idx :> combine(v[pair[1]], v[pair[2]])) @@ v

(***************************************************************************)
(* encode_ordinary: one chunk.                                             *)
(***************************************************************************)
\* for (const pair of pairs) for (const [idx, mergePair] of merges)
\*   if (pair is mergePair) merges.push({ pair, idx })
\* the x-th round of the inner loop has pair PairOf(x) and merge MergeOf(x)
MatchingMerges(pairs, mrg) ==
  LET PairOf(x) == pairs[((x - 1) \div Len(mrg)) + 1]
      MergeOf(x) == mrg[((x - 1) % Len(mrg)) + 1]
      Matches(x) == PairOf(x)[1] = MergeOf(x)[2][1] /\ PairOf(x)[2] = MergeOf(x)[2][2]
      rounds == SelectSeq([x \in 1..(Len(pairs) * Len(mrg)) |-> x], Matches)
  IN [r \in 1..Len(rounds) |->
        [pair |-> PairOf(rounds[r]), idx |-> MergeOf(rounds[r])[1]]]

\* merges.sort((a, b) => a.idx - b.idx): [0] of it is lowest, <<>> when undefined
Lowest(toks, mrg) ==
  LET found == MatchingMerges(get_unique_pairs(toks), mrg)
      sorted == StableSort([k \in 1..Len(found) |-> <<found[k].idx, found[k]>>])
  IN IF sorted = <<>> THEN <<>> ELSE <<sorted[1][2]>>

\* while (true) { ...; if (!lowest) break; tokens = replace(...) }
RECURSIVE MergeLoop(_, _)
MergeLoop(toks, mrg) ==
  LET lowest == Lowest(toks, mrg) IN
  IF lowest = <<>> THEN toks
  ELSE MergeLoop(replace(toks, lowest[1].pair, lowest[1].idx), mrg)

\* the body of the for loop of encode_ordinary
EncodeChunk(toks, mrg) == IF Len(toks) < 2 THEN toks ELSE MergeLoop(toks, mrg)

encode_ordinary(rx, mrg, t) ==
  LET chunks == EncodeChunks(MatchAll(rx, t))
  IN [k \in 1..Len(chunks) |-> EncodeChunk(chunks[k], mrg)]

(***************************************************************************)
(* encode: the allowed_special argument, the split, the parts.             *)
(***************************************************************************)
\* the first literal of special, in its order, that occurs in s at position q;
\* 0 for none: one sticky match of new RegExp(`(${pattern})`, 'g')
RECURSIVE FirstLiteralAt(_, _, _, _)
FirstLiteralAt(special, s, q, k) ==
  IF k > Len(special) THEN 0
  ELSE IF OccursAt(s, special[k][1], q) THEN k
  ELSE FirstLiteralAt(special, s, q, k + 1)

\* the loop of String.prototype.split with a pattern of one capture group:
\* p is where the last match ended, q where the next is tried (1-based)
RECURSIVE SplitFrom(_, _, _, _, _)
SplitFrom(s, special, p, q, parts) ==
  IF q > Len(s) THEN Append(parts, Slice(s, p, Len(s)))
  ELSE LET k == FirstLiteralAt(special, s, q, 1) IN
    IF k = 0 THEN SplitFrom(s, special, p, q + 1, parts)
    ELSE LET e == q + Len(special[k][1]) IN
      IF e = p THEN SplitFrom(s, special, p, q + 1, parts)
      ELSE SplitFrom(s, special, e, e,
                     parts \o <<Slice(s, p, q - 1), special[k][1]>>)

\* text.split(regex)
Split(s, special) ==
  IF s = <<>>
  THEN IF FirstLiteralAt(special, s, 1, 1) # 0 THEN <<>> ELSE <<s>>
  ELSE SplitFrom(s, special, 1, 1, <<>>)

\* for (const part of parts) ...
RECURSIVE EncodeParts(_, _, _, _, _)
EncodeParts(rx, mrg, special, parts, k) ==
  IF k > Len(parts) THEN <<>>
  ELSE IF MapHas(special, parts[k])
  THEN <<<<MapGet(special, parts[k])>>>> \o EncodeParts(rx, mrg, special, parts, k + 1)
  ELSE IF Len(parts[k]) > 0
  THEN encode_ordinary(rx, mrg, parts[k]) \o EncodeParts(rx, mrg, special, parts, k + 1)
  ELSE EncodeParts(rx, mrg, special, parts, k + 1)

\* the special map of encode for a Set of names, from name k
RECURSIVE ExplicitSpecial(_, _, _, _)
ExplicitSpecial(table, names, special, k) ==
  IF k > Len(names) THEN special
  ELSE ExplicitSpecial(table, names,
                       MapSet(special, names[k], MapGet(table, names[k])), k + 1)

\* the allowed_special argument: 'all', 'none', 'none_raise', or a Set of names
\* in insertion order; anything else is kind "invalid"
ModeAll == [kind |-> "all", names |-> <<>>]
ModeNone == [kind |-> "none", names |-> <<>>]
ModeNoneRaise == [kind |-> "none_raise", names |-> <<>>]
ModeSet(names) == [kind |-> "set", names |-> names]
ModeOrdinary == [kind |-> "ordinary", names |-> <<>>]

\* whether encode throws before it encodes
EncodeThrows(table, t, m) ==
  CASE m.kind = "all" -> FALSE
    [] m.kind = "none" -> FALSE
    [] m.kind = "none_raise" -> \E k \in 1..Len(table) : Includes(t, table[k][1])
    [] m.kind = "set" -> \E k \in 1..Len(m.names) : ~MapHas(table, m.names[k])
    [] OTHER -> TRUE

\* the special map encode splits by
EncodeSpecial(table, m) ==
  CASE m.kind = "all" -> table
    [] m.kind = "set" -> ExplicitSpecial(table, m.names, <<>>, 1)
    [] OTHER -> <<>>

\* what encode returns when it does not throw
EncodeResult(rx, mrg, table, t, m) ==
  LET special == EncodeSpecial(table, m) IN
  IF Len(special) = 0 THEN encode_ordinary(rx, mrg, t)
  ELSE EncodeParts(rx, mrg, special, Split(t, special), 1)

(***************************************************************************)
(* decode.                                                                 *)
(***************************************************************************)
\* whether decode finds idx in neither table
Unknown(v, inverse, idx) == idx \notin DOMAIN v /\ ~MapHas(inverse, idx)

\* the bytes decode pushes for a token
TokenBytes(v, inverse, idx) ==
  IF idx \in DOMAIN v THEN v[idx] ELSE MapGet(inverse, idx)

\* the inner loop of decode over one chunk
RECURSIVE DecodeChunk(_, _, _)
DecodeChunk(v, inverse, chunk) ==
  IF chunk = <<>> THEN <<>>
  ELSE TokenBytes(v, inverse, Head(chunk)) \o DecodeChunk(v, inverse, Tail(chunk))

DecodeThrows(v, inverse, chunks) ==
  \E k \in 1..Len(chunks) : \E j \in 1..Len(chunks[k]) : Unknown(v, inverse, chunks[k][j])

\* new TextDecoder().decode(new Uint8Array(chunks.flat()))
DecodeResult(v, inverse, chunks) ==
  Utf8Decode(Flatten([k \in 1..Len(chunks) |-> DecodeChunk(v, inverse, chunks[k])]))

(***************************************************************************)
(* The inputs.                                                             *)
(***************************************************************************)
\* vocab_size arguments: 256 is refused
VocabSizes == BaseVocab..MaxVocabSize
\* regex arguments: /\S+/g, GPT4_REGEX, and /\S+/ without the global flag
Patterns == {"nonspace", "gpt4", "nonspace_once"}
HasGlobalFlag(rx) == rx # "nonspace_once"

\* "ab bababa": the chunk ab comes first, and the second chunk has ba and ab
\* twice each before its last pair
TieText == <<97, 98, 32, 98, 97, 98, 97, 98, 97>>

\* training texts: over a and the space, and over a and b
TrainTexts ==
  SeqsUpTo({97, 32}, MaxTrainLen) \cup SeqsUpTo({97, 98}, MaxPairLen) \cup {TieText}
\* texts a tokenizer is trained on again
RetrainTexts == SeqsUpTo({97, 32}, MaxRetrainLen)
\* texts for encode_ordinary: over a and the space, and over a, e-acute, the byte
\* order mark U+FEFF and the high surrogate U+D83D
OrdinaryTexts ==
  SeqsUpTo({97, 32}, MaxTextLen) \cup SeqsUpTo({97, 233, 65279, 55357}, MaxWideLen)

\* special-token tables
Tables == {DEFAULT_ALLOWED_SPECIAL, PREFIX_SPECIAL, SHARED_ID_SPECIAL}
\* a name that no table registers: <x>
UnregisteredName == <<60, 120, 62>>

\* texts for encode: up to MaxPieces pieces, each a, the space or one of the first
\* two literals of the table; and every literal of the table alone
Pieces(table) == {<<97>>, <<32>>, table[1][1], table[2][1]}
SpecialTexts(table) ==
  {Flatten(ps) : ps \in SeqsUpTo(Pieces(table), MaxPieces)}
    \cup {table[k][1] : k \in 1..Len(table)}

\* allowed_special arguments
Modes(table) ==
  {ModeAll, ModeNone, ModeNoneRaise,
   ModeSet(<<>>), ModeSet(<<table[1][1]>>), ModeSet(<<table[2][1]>>),
   ModeSet(<<table[1][1], table[2][1]>>), ModeSet(<<table[2][1], table[1][1]>>),
   ModeSet(<<UnregisteredName>>), ModeSet(<<table[1][1], UnregisteredName>>)}

\* token chunks given to decode: bytes, merge ids, special ids, other ids
DecodeInputs ==
  { <<>>, <<<<97>>>>, <<<<97, 256>>>>, <<<<256>>, <<257>>>>, <<<<258>>>>,
    <<<<100257>>>>, <<<<97>>, <<100258, 32>>>>, <<<<100259>>>>, <<<<100261>>>>,
    <<<<97, 98>>, <<70000>>>> }

\* token lists given to get_stats alone
IdsChunks == SeqsUpTo(SeqsUpTo({97, 98}, MaxIdsLen), MaxChunks)

NoCall == [kind |-> "none", names |-> <<>>]

(***************************************************************************)
(* The state machine.                                                      *)
(***************************************************************************)
Blank ==
  /\ variant = "none"
  /\ vocab_size = 0
  /\ regex = "nonspace"
  /\ special_tokens = <<>>
  /\ inverse_special_tokens = <<>>
  /\ merges = <<>>
  /\ vocab = <<>>
  /\ stringChunks = <<>>
  /\ i = 0
  /\ tokens = <<>>
  /\ stats = <<>>
  /\ corpus = <<>>
  /\ trained = <<>>
  /\ trainEnd = "none"
  /\ op = "none"
  /\ text = <<>>
  /\ mode = NoCall
  /\ encoded = <<>>
  /\ arg = <<>>
  /\ decoded = <<>>
  /\ err = "none"

Init ==
  /\ pc = "none"
  /\ tokenChunks = <<>>
  /\ Blank

locals == <<stringChunks, tokenChunks, i, tokens, stats>>
fields ==
  <<variant, vocab_size, regex, special_tokens, inverse_special_tokens, merges, vocab>>
history == <<corpus, trained, trainEnd>>
calls == <<text, mode, encoded, arg, decoded>>

\* The caller makes a call on a tokenizer that was just constructed, registered
\* or trained.  encode, encode_ordinary and decode change no field and every call
\* overwrites the records of the call before it, so a call after another call
\* reaches no state that this order does not reach.
Fresh == pc = "idle" /\ op \in {"construct", "register", "train"}

\* new RegexTokenizer(vs, rx, table): a constructor that throws leaves no instance
Construct(vs, rx, table) ==
  /\ pc = "none"
  /\ op' = "construct"
  /\ IF vs < BaseVocab + 1 \/ ~HasGlobalFlag(rx)
     THEN /\ err' = "Error"
          /\ UNCHANGED <<pc, fields>>
     ELSE /\ err' = "none"
          /\ pc' = "idle"
          /\ variant' = "RegexTokenizer"
          /\ vocab_size' = vs
          /\ regex' = rx
          /\ special_tokens' = table
          /\ inverse_special_tokens' = RegisterFrom(table, <<>>, 1)
          /\ UNCHANGED <<merges, vocab>>
  /\ UNCHANGED <<locals, history, calls>>

\* register_special_tokens(table), before any training
Register(table) ==
  /\ pc = "idle"
  /\ op \in {"construct", "register"}
  /\ op' = "register"
  /\ err' = "none"
  /\ special_tokens' = table
  /\ inverse_special_tokens' = RegisterFrom(table, inverse_special_tokens, 1)
  /\ UNCHANGED <<pc, variant, vocab_size, regex, merges, vocab, locals, history, calls>>

\* train(t) up to its loop
TrainCall(t) ==
  /\ pc' = "training"
  /\ merges' = <<>>
  /\ vocab' = BaseVocabulary
  /\ stringChunks' = MatchAll(regex, t)
  /\ tokenChunks' = EncodeChunks(MatchAll(regex, t))
  /\ i' = 0
  /\ tokens' = <<>>
  /\ stats' = <<>>
  /\ corpus' = t
  /\ trained' = <<>>
  /\ trainEnd' = "none"
  /\ op' = "none"
  /\ err' = "none"
  /\ text' = <<>>
  /\ mode' = NoCall
  /\ encoded' = <<>>
  /\ arg' = <<>>
  /\ decoded' = <<>>
  /\ UNCHANGED <<variant, vocab_size, regex, special_tokens, inverse_special_tokens>>

\* the first train(t) of a tokenizer
Train(t) ==
  /\ pc = "idle"
  /\ op \in {"construct", "register"}
  /\ TrainCall(t)

\* train(t) of a trained tokenizer
Retrain(t) ==
  /\ pc = "idle"
  /\ op = "train"
  /\ TrainCall(t)

\* how train ends: the loop ran out, broke, or threw
TrainEnds(how, e) ==
  /\ pc' = "idle"
  /\ op' = "train"
  /\ err' = e
  /\ trained' = tokenChunks
  /\ trainEnd' = how
  /\ UNCHANGED <<fields, stringChunks, tokenChunks, i, tokens, corpus, calls>>

\* i < num_merges fails
TrainReturn ==
  /\ pc = "training"
  /\ ~(i < vocab_size - BaseVocab)
  /\ TrainEnds("return", "none")
  /\ UNCHANGED stats

\* get_top_pairs(stats, 1)[0] is undefined: top.count throws a TypeError
TrainThrow ==
  /\ pc = "training"
  /\ i < vocab_size - BaseVocab
  /\ stats' = TrainStats(tokenChunks)
  /\ get_top_pairs(TrainStats(tokenChunks), 1) = <<>>
  /\ TrainEnds("throw", "TypeError")

\* if (top.count < 2) break
TrainBreak ==
  /\ pc = "training"
  /\ i < vocab_size - BaseVocab
  /\ stats' = TrainStats(tokenChunks)
  /\ get_top_pairs(TrainStats(tokenChunks), 1) # <<>>
  /\ get_top_pairs(TrainStats(tokenChunks), 1)[1].count < 2
  /\ TrainEnds("break", "none")

\* one iteration of the loop of train that learns a merge
TrainMerge ==
  /\ pc = "training"
  /\ i < vocab_size - BaseVocab
  /\ stats' = TrainStats(tokenChunks)
  /\ get_top_pairs(TrainStats(tokenChunks), 1) # <<>>
  /\ LET top == get_top_pairs(TrainStats(tokenChunks), 1)[1]
         idx == MergeIdx(i)
     IN /\ top.count >= 2
        /\ merges' = Append(merges, <<idx, top.arr>>)
        /\ vocab' = VocabSet(vocab, idx, top.arr)
        /\ tokenChunks' = [j \in 1..Len(tokenChunks) |->
                             replace(tokenChunks[j], top.arr, idx)]
        /\ i' = i + 1
  /\ UNCHANGED <<pc, variant, vocab_size, regex, special_tokens, inverse_special_tokens,
                 stringChunks, tokens, history, op, calls, err>>

\* encode_ordinary(t) up to its loop
EncodeOrdinary(t) ==
  /\ Fresh
  /\ pc' = "encoding"
  /\ stringChunks' = MatchAll(regex, t)
  /\ tokenChunks' = EncodeChunks(MatchAll(regex, t))
  /\ i' = 0
  /\ tokens' = <<>>
  /\ op' = "none"
  /\ err' = "none"
  /\ text' = t
  /\ mode' = ModeOrdinary
  /\ encoded' = <<>>
  /\ arg' = <<>>
  /\ decoded' = <<>>
  /\ UNCHANGED <<fields, stats, history>>

\* let tokens = tokenChunks[i]; if (tokens.length < 2) continue
EncodeNextChunk ==
  /\ pc = "encoding"
  /\ i < Len(tokenChunks)
  /\ tokens' = tokenChunks[i + 1]
  /\ IF Len(tokenChunks[i + 1]) < 2
     THEN i' = i + 1 /\ pc' = "encoding"
     ELSE i' = i /\ pc' = "merging"
  /\ UNCHANGED <<fields, stringChunks, tokenChunks, stats, history, op, calls, err>>

\* one iteration of while (true) that replaces the lowest merge
EncodeMerge ==
  /\ pc = "merging"
  /\ Lowest(tokens, merges) # <<>>
  /\ LET lowest == Lowest(tokens, merges)[1]
     IN tokens' = replace(tokens, lowest.pair, lowest.idx)
  /\ UNCHANGED <<pc, fields, stringChunks, tokenChunks, i, stats, history, op,
                 calls, err>>

\* if (!lowest) break; tokenChunks[i] = tokens
EncodeBreak ==
  /\ pc = "merging"
  /\ Lowest(tokens, merges) = <<>>
  /\ tokenChunks' = [tokenChunks EXCEPT ![i + 1] = tokens]
  /\ i' = i + 1
  /\ pc' = "encoding"
  /\ UNCHANGED <<fields, stringChunks, tokens, stats, history, op, calls, err>>

\* return tokenChunks
EncodeReturn ==
  /\ pc = "encoding"
  /\ ~(i < Len(tokenChunks))
  /\ pc' = "idle"
  /\ op' = "encode_ordinary"
  /\ encoded' = tokenChunks
  /\ UNCHANGED <<fields, locals, history, text, mode, arg, decoded, err>>

\* encode(t, m)
Encode(t, m) ==
  /\ Fresh
  /\ op' = "encode"
  /\ text' = t
  /\ mode' = m
  /\ arg' = <<>>
  /\ decoded' = <<>>
  /\ IF EncodeThrows(special_tokens, t, m)
     THEN err' = "Error" /\ encoded' = <<>>
     ELSE /\ err' = "none"
          /\ encoded' = EncodeResult(regex, merges, special_tokens, t, m)
  /\ UNCHANGED <<pc, fields, locals, history>>

\* the body of decode(chunks)
DecodeCall(chunks) ==
  /\ op' = "decode"
  /\ arg' = chunks
  /\ IF DecodeThrows(vocab, inverse_special_tokens, chunks)
     THEN err' = "Error" /\ decoded' = <<>>
     ELSE /\ err' = "none"
          /\ decoded' = DecodeResult(vocab, inverse_special_tokens, chunks)
  /\ UNCHANGED <<pc, fields, locals, history, text, mode, encoded>>

\* decode(chunks)
Decode(chunks) ==
  /\ Fresh
  /\ DecodeCall(chunks)

\* decode of what the last encode returned
DecodeEncoded ==
  /\ pc = "idle"
  /\ op \in {"encode", "encode_ordinary"}
  /\ err = "none"
  /\ DecodeCall(encoded)

\* a tokenizer built as the tests build it, with the default special tokens,
\* trained and used on ordinary text
Next ==
  \/ \E vs \in VocabSizes, rx \in Patterns : Construct(vs, rx, DEFAULT_ALLOWED_SPECIAL)
  \/ \E t \in TrainTexts : Train(t)
  \/ \E t \in RetrainTexts : Retrain(t)
  \/ TrainReturn
  \/ TrainThrow
  \/ TrainBreak
  \/ TrainMerge
  \/ \E t \in OrdinaryTexts \cup {corpus} : EncodeOrdinary(t)
  \/ EncodeNextChunk
  \/ EncodeMerge
  \/ EncodeBreak
  \/ EncodeReturn
  \/ DecodeEncoded

Spec == Init /\ [][Next]_vars

\* a tokenizer built with a special-token table, registered again, trained on a
\* short text and used on text with special literals
NextSpecial ==
  \/ \E rx \in Patterns, table \in Tables : Construct(BaseVocab + 1, rx, table)
  \/ \E table \in Tables : Register(table)
  \/ \E t \in SeqsUpTo({97}, MaxRetrainLen) : Train(t)
  \/ TrainReturn
  \/ TrainThrow
  \/ TrainBreak
  \/ TrainMerge
  \/ /\ Fresh
     /\ \E t \in SpecialTexts(special_tokens), m \in Modes(special_tokens) :
          Encode(t, m)
  \/ \E chunks \in DecodeInputs : Decode(chunks)
  \/ DecodeEncoded

SpecSpecial == Init /\ [][NextSpecial]_vars

\* get_stats alone, over the chunks of one training iteration
InitStats ==
  /\ pc = "stats"
  /\ tokenChunks \in IdsChunks
  /\ Blank

CollectStats ==
  /\ pc = "stats"
  /\ pc' = "counted"
  /\ stats' = TrainStats(tokenChunks)
  /\ UNCHANGED <<fields, stringChunks, tokenChunks, i, tokens, history, op, calls, err>>

NextStats == CollectStats

SpecStats == InitStats /\ [][NextStats]_vars

(***************************************************************************)
(* replace alone: tokenChunks holds the arguments of the call, the tokens, *)
(* the pair and the replacement, and tokens what it returns.               *)
(***************************************************************************)
\* calls replace(toks, [x, y], id) with tokens a, b and the id of a first rule
ReplaceCalls ==
  {<<toks, <<x, y>>, <<id>>>> :
     toks \in SeqsUpTo({97, 98, BaseVocab}, MaxReplaceLen),
     x \in {97, 98}, y \in {97, 98}, id \in {97, BaseVocab}}

InitReplace ==
  /\ pc = "replace"
  /\ tokenChunks \in ReplaceCalls
  /\ Blank

ReplaceCall ==
  /\ pc = "replace"
  /\ pc' = "replaced"
  /\ tokens' = replace(tokenChunks[1], tokenChunks[2], tokenChunks[3][1])
  /\ UNCHANGED <<fields, stringChunks, tokenChunks, i, stats, history, op, calls, err>>

NextReplace == ReplaceCall

SpecReplace == InitReplace /\ [][NextReplace]_vars

(***************************************************************************)
(* The tokenizers without chunks: one token list for the whole text.       *)
(***************************************************************************)
\* the classes: BasicTokenizer of src/testing.ts, BasicTokenizer of
\* src/unnamed/part_001, Trainer with its Codec of src/unnamed/part_000
Variants == {"testing.BasicTokenizer", "part_001.BasicTokenizer", "part_000.Trainer"}

\* the class that keeps #vocab and decodes through it
HasVocab(v) == v = "testing.BasicTokenizer"
\* the constructors that throw; console.assert of Trainer only logs
ChecksSize(v) == v # "part_000.Trainer"
\* Trainer.train never empties its #merges Map
KeepsMerges(v) == v = "part_000.Trainer"

\* sizes given to the constructors: from below 256
BasicSizes == (BaseVocab - 1)..MaxVocabSize
\* aaabbbb, from which two rules are learned: 256 = (a, a), then 257 = (b, b)
TwoRuleText == <<97, 97, 97, 98, 98, 98, 98>>
\* bbaa, in which the pair of the first of these rules is the last pair
LastPairText == <<98, 98, 97, 97>>

\* training texts and the texts trained on again
BasicTexts ==
  SeqsUpTo({97, 98}, MaxPairLen) \cup SeqsUpTo({97}, MaxTrainLen) \cup {TwoRuleText}
BasicRetrainTexts == SeqsUpTo({97, 98}, MaxRetrainLen)
\* texts given to encode
BasicEncodeTexts ==
  OrdinaryTexts \cup SeqsUpTo({97, 98}, MaxTextLen) \cup {LastPairText}

\* new BasicTokenizer(vs), new Trainer(vs)
BasicConstruct(v, vs) ==
  /\ pc = "none"
  /\ op' = "construct"
  /\ IF ChecksSize(v) /\ vs < BaseVocab + 1
     THEN /\ err' = "Error"
          /\ UNCHANGED <<pc, fields>>
     ELSE /\ err' = "none"
          /\ pc' = "ready"
          /\ variant' = v
          /\ vocab_size' = vs
          /\ UNCHANGED <<regex, special_tokens, inverse_special_tokens, merges, vocab>>
  /\ UNCHANGED <<locals, history, calls>>

\* train(t) up to its loop
BasicTrainCall(t) ==
  /\ pc = "ready"
  /\ pc' = "basic_training"
  /\ tokens' = Utf8Encode(t)
  /\ merges' = IF KeepsMerges(variant) THEN merges ELSE <<>>
  /\ vocab' = IF HasVocab(variant) THEN BaseVocabulary ELSE vocab
  /\ i' = 0
  /\ stats' = <<>>
  /\ corpus' = t
  /\ trained' = <<>>
  /\ trainEnd' = "none"
  /\ op' = "none"
  /\ err' = "none"
  /\ text' = <<>>
  /\ mode' = NoCall
  /\ encoded' = <<>>
  /\ arg' = <<>>
  /\ decoded' = <<>>
  /\ UNCHANGED <<variant, vocab_size, regex, special_tokens, inverse_special_tokens,
                 stringChunks, tokenChunks>>

\* the first train(t) of an instance
BasicTrain(t) == op = "construct" /\ BasicTrainCall(t)

\* train(t) of an instance that was trained
BasicRetrain(t) == op = "train" /\ BasicTrainCall(t)

\* how train ends: the loop ran out, broke, or threw
BasicTrainEnds(how, e) ==
  /\ pc' = "ready"
  /\ op' = "train"
  /\ err' = e
  /\ trained' = <<tokens>>
  /\ trainEnd' = how
  /\ UNCHANGED <<fields, stringChunks, tokenChunks, i, tokens, corpus, calls>>

\* i < num_merges fails
BasicTrainReturn ==
  /\ pc = "basic_training"
  /\ ~(i < vocab_size - BaseVocab)
  /\ BasicTrainEnds("return", "none")
  /\ UNCHANGED stats

\* get_top_pairs(stats, 1)[0] is undefined: top.count throws a TypeError
BasicTrainThrow ==
  /\ pc = "basic_training"
  /\ i < vocab_size - BaseVocab
  /\ stats' = get_stats(tokens, <<>>)
  /\ get_top_pairs(get_stats(tokens, <<>>), 1) = <<>>
  /\ BasicTrainEnds("throw", "TypeError")

\* if (top.count < 2) break
BasicTrainBreak ==
  /\ pc = "basic_training"
  /\ i < vocab_size - BaseVocab
  /\ stats' = get_stats(tokens, <<>>)
  /\ get_top_pairs(get_stats(tokens, <<>>), 1) # <<>>
  /\ get_top_pairs(get_stats(tokens, <<>>), 1)[1].count < 2
  /\ BasicTrainEnds("break", "none")

\* one iteration of the loop of train that learns a merge: Trainer sets a key of
\* its Map, the others push
BasicTrainMerge ==
  /\ pc = "basic_training"
  /\ i < vocab_size - BaseVocab
  /\ stats' = get_stats(tokens, <<>>)
  /\ get_top_pairs(get_stats(tokens, <<>>), 1) # <<>>
  /\ LET top == get_top_pairs(get_stats(tokens, <<>>), 1)[1]
         idx == MergeIdx(i)
     IN /\ top.count >= 2
        /\ tokens' = replace(tokens, top.arr, idx)
        /\ merges' = IF KeepsMerges(variant) THEN MapSet(merges, idx, top.arr)
                     ELSE Append(merges, <<idx, top.arr>>)
        /\ vocab' = IF HasVocab(variant) THEN VocabSet(vocab, idx, top.arr) ELSE vocab
        /\ i' = i + 1
  /\ UNCHANGED <<pc, variant, vocab_size, regex, special_tokens, inverse_special_tokens,
                 stringChunks, tokenChunks, history, op, calls, err>>

\* Array.from(merges.entries()).sort((a, b) => a[0] - b[0]) of the Codec
\* constructor; the other classes keep #merges in the order of the pushes
CodecMerges(v, mrg) ==
  IF KeepsMerges(v)
  THEN LET sorted == StableSort([k \in 1..Len(mrg) |-> <<mrg[k][1], mrg[k]>>])
       IN [k \in 1..Len(sorted) |-> sorted[k][2]]
  ELSE mrg

\* pairs.map(pair => the first merge of the pair, or undefined)
\*   .sort((a, b) => (a?.idx ?? Infinity) - (b?.idx ?? Infinity)).filter(Boolean)[0]
LowestFirstMatch(toks, mrg) ==
  LET pairs == get_unique_pairs(toks)
      Hits(k) == {m \in 1..Len(mrg) : mrg[m][2] = pairs[k]}
      First(k) == CHOOSE m \in Hits(k) : \A n \in Hits(k) : m <= n
      Matched(k) == Hits(k) # {}
      hit == SelectSeq(IF pairs = <<>> THEN <<>> ELSE [k \in 1..Len(pairs) |-> k], Matched)
      sorted == StableSort([r \in 1..Len(hit) |->
                  <<mrg[First(hit[r])][1],
                    [pair |-> pairs[hit[r]], idx |-> mrg[First(hit[r])][1]]>>])
  IN IF sorted = <<>> THEN <<>> ELSE <<sorted[1][2]>>

\* lowest of encode: src/testing.ts collects every match as encode_ordinary does
BasicLowest(v, toks, mrg) ==
  IF HasVocab(v) THEN Lowest(toks, mrg) ELSE LowestFirstMatch(toks, CodecMerges(v, mrg))

\* encode(t) up to its loop: if (tokens.length < 2) return tokens
BasicEncode(t) ==
  /\ pc = "ready"
  /\ op \in {"construct", "train"}
  /\ KeepsMerges(variant) => trainEnd \in {"return", "break"}
  /\ tokens' = Utf8Encode(t)
  /\ text' = t
  /\ mode' = NoCall
  /\ arg' = <<>>
  /\ decoded' = <<>>
  /\ err' = "none"
  /\ IF Len(Utf8Encode(t)) < 2
     THEN pc' = "ready" /\ op' = "encode" /\ encoded' = Utf8Encode(t)
     ELSE pc' = "basic_merging" /\ op' = "none" /\ encoded' = <<>>
  /\ UNCHANGED <<fields, stringChunks, tokenChunks, i, stats, history>>

\* one iteration of while (true) that replaces the lowest merge
BasicEncodeMerge ==
  /\ pc = "basic_merging"
  /\ BasicLowest(variant, tokens, merges) # <<>>
  /\ LET lowest == BasicLowest(variant, tokens, merges)[1]
     IN tokens' = replace(tokens, lowest.pair, lowest.idx)
  /\ UNCHANGED <<pc, fields, stringChunks, tokenChunks, i, stats, history, op,
                 calls, err>>

\* if (!lowest) break; return tokens
BasicEncodeBreak ==
  /\ pc = "basic_merging"
  /\ BasicLowest(variant, tokens, merges) = <<>>
  /\ pc' = "ready"
  /\ op' = "encode"
  /\ encoded' = tokens
  /\ UNCHANGED <<fields, locals, history, text, mode, arg, decoded, err>>

\* a splice that puts back the left id of the pair alone
ExpandMergeLeft(toks, merge) ==
  [k \in 1..Len(toks) |-> IF toks[k] = merge[1] THEN merge[2][1] ELSE toks[k]]

\* for (let i = toks.length - 1; i >= 0; i--) if (merge[0] === toks[i]) splice
ExpandMerge(toks, merge) ==
  Flatten([k \in 1..Len(toks) |-> IF toks[k] = merge[1] THEN merge[2] ELSE <<toks[k]>>])

\* a walk through the rules from the lowest id to the highest, up to merge k
RECURSIVE SpliceAscending(_, _, _)
SpliceAscending(toks, mrg, k) ==
  IF k = 0 THEN toks ELSE ExpandMerge(SpliceAscending(toks, mrg, k - 1), mrg[k])

\* for (const merge of merges.toReversed()) ..., from merge k down
RECURSIVE SpliceFrom(_, _, _)
SpliceFrom(toks, mrg, k) ==
  IF k = 0 THEN toks ELSE SpliceFrom(ExpandMerge(toks, mrg[k]), mrg, k - 1)

\* new Uint8Array(toks): every element modulo 256
Uint8Array(toks) == [k \in 1..Len(toks) |-> toks[k] % 256]

\* decode of the classes without #vocab
SpliceDecode(toks, mrg) == Utf8Decode(Uint8Array(SpliceFrom(toks, mrg, Len(mrg))))

\* decode of src/testing.ts: throws for a token that #vocab has not
VocabDecodeThrows(v, toks) == \E k \in 1..Len(toks) : toks[k] \notin DOMAIN v
VocabDecode(v, toks) == Utf8Decode(Flatten([k \in 1..Len(toks) |-> v[toks[k]]]))

\* decode(toks)
BasicDecodeCall(toks) ==
  /\ op' = "decode"
  /\ arg' = toks
  /\ IF HasVocab(variant)
     THEN IF VocabDecodeThrows(vocab, toks)
          THEN err' = "Error" /\ decoded' = <<>>
          ELSE err' = "none" /\ decoded' = VocabDecode(vocab, toks)
     ELSE err' = "none" /\ decoded' = SpliceDecode(toks, CodecMerges(variant, merges))
  /\ UNCHANGED <<pc, fields, locals, history, text, mode, encoded>>

\* decode of what the last encode returned
BasicDecodeEncoded ==
  /\ pc = "ready"
  /\ op = "encode"
  /\ BasicDecodeCall(encoded)

\* an instance of one of the classes without chunks, trained and used as the
\* tests use it
NextBasic ==
  \/ \E v \in Variants, vs \in BasicSizes : BasicConstruct(v, vs)
  \/ \E t \in BasicTexts : BasicTrain(t)
  \/ \E t \in BasicRetrainTexts : BasicRetrain(t)
  \/ BasicTrainReturn
  \/ BasicTrainThrow
  \/ BasicTrainBreak
  \/ BasicTrainMerge
  \/ \E t \in BasicEncodeTexts \cup {corpus} : BasicEncode(t)
  \/ BasicEncodeMerge
  \/ BasicEncodeBreak
  \/ BasicDecodeEncoded

SpecBasic == Init /\ [][NextBasic]_vars

\* token lists given to decode: bytes and the ids of the first two rules
BasicDecodeInputs == SeqsUpTo({97, 98, MergeIdx(0), MergeIdx(1)}, MaxTokensLen)

\* decode(toks) of an instance that was trained; the Trainer has returned a
\* Codec
BasicDecode(toks) ==
  /\ pc = "ready"
  /\ op = "train"
  /\ KeepsMerges(variant) => trainEnd \in {"return", "break"}
  /\ BasicDecodeCall(toks)

\* an instance of one of the classes without chunks, trained and given token
\* lists to decode
NextDecode ==
  \/ \E v \in Variants, vs \in BasicSizes : BasicConstruct(v, vs)
  \/ \E t \in BasicTexts : BasicTrain(t)
  \/ \E t \in BasicRetrainTexts : BasicRetrain(t)
  \/ BasicTrainReturn
  \/ BasicTrainThrow
  \/ BasicTrainBreak
  \/ BasicTrainMerge
  \/ \E toks \in BasicDecodeInputs : BasicDecode(toks)

SpecDecode == Init /\ [][NextDecode]_vars

\* an instance of any of the classes
NextVariants == Next \/ NextBasic

SpecVariants == Init /\ [][NextVariants]_vars

\* encode runs to its end once it is called: an iteration of its loop that can
\* be made is made
LoopStep == EncodeMerge \/ EncodeBreak \/ BasicEncodeMerge \/ BasicEncodeBreak

\* texts trained on and texts encoded to follow the loop of encode to its end
LoopTrainTexts == SeqsUpTo({97}, MaxTrainLen) \cup {TwoRuleText}
LoopTexts == SeqsUpTo({97, 98, 32}, MaxLoopLen)

\* an instance of any class, trained once, encodes a text
NextEncodeEnds ==
  \/ \E rx \in Patterns : Construct(MaxVocabSize, rx, DEFAULT_ALLOWED_SPECIAL)
  \/ \E v \in Variants : BasicConstruct(v, MaxVocabSize)
  \/ \E t \in LoopTrainTexts : Train(t) \/ BasicTrain(t)
  \/ TrainReturn \/ BasicTrainReturn
  \/ TrainThrow \/ BasicTrainThrow
  \/ TrainBreak \/ BasicTrainBreak
  \/ TrainMerge \/ BasicTrainMerge
  \/ \E t \in LoopTexts \cup {corpus} : EncodeOrdinary(t) \/ BasicEncode(t)
  \/ EncodeNextChunk
  \/ EncodeReturn
  \/ LoopStep

\* the loop of encode is at work on a chunk
InLoop == pc \in {"merging", "basic_merging"}

\* Weak fairness of LoopStep, with ENABLED <<LoopStep>>_vars written out: it is
\* InLoop, since in the loop either a rule is found and replace changes tokens,
\* or none is found and the break changes pc, and outside the loop no step of
\* the loop can be made.
LoopFairness == <>[]InLoop => []<><<LoopStep>>_vars

SpecEncodeEnds == Init /\ [][NextEncodeEnds]_vars /\ LoopFairness

(***************************************************************************)
(* Properties.                                                             *)
(***************************************************************************)
\* the bytes that a chunk of tokens stands for in a vocabulary
Expand(v, toks) == Flatten([k \in 1..Len(toks) |-> v[toks[k]]])

\* whether the matches of the pattern are all of t
Covered(rx, t) == Flatten(MatchAll(rx, t)) = t

\* whether t has no lone surrogate
WellFormed(t) ==
  \A k \in 1..Len(t) :
    /\ IsHighSurrogate(t[k]) => k < Len(t) /\ IsLowSurrogate(t[k + 1])
    /\ IsLowSurrogate(t[k]) => k > 1 /\ IsHighSurrogate(t[k - 1])

\* whether t does not start with the byte order mark
NoLeadingMark(t) == t = <<>> \/ t[1] # 65279

\* decode(encode_ordinary(text)) has ended on a tokenizer whose train has returned
RoundTripCall ==
  /\ pc = "idle" /\ op = "decode" /\ mode = ModeOrdinary /\ arg = encoded
  /\ trainEnd \in {"return", "break"}

C2_EncodeReproducesTraining ==
  pc = "idle" /\ op = "encode_ordinary" /\ text = corpus /\ trainEnd \in {"return", "break"}
    => encoded = trained

\* C3: train returns without an error, with at most vocab_size - 256 merges, and
\* with fewer only when no pair of the last statistics has a count of 2 or more.
C3_TrainReturnsNormally ==
  pc = "idle" /\ op = "train"
    => /\ err = "none"
       /\ Len(merges) <= vocab_size - BaseVocab
       /\ Len(merges) < vocab_size - BaseVocab
            => \A k \in 1..Len(stats) : stats[k][2].count < 2

\* C4: in every state the ids of the learned merges are, in stored order,
\* 256, 257, ..., 256 + N - 1.
C4_MergeIdsSequential ==
  \A k \in 1..Len(merges) : merges[k][1] = BaseVocab + k - 1

\* training has learned a second merge
C4_TwoMergesLearned == pc = "training" /\ Len(merges) = 2

\* the number of positions of the chunks from chunk k at which x is followed by y
RECURSIVE AdjacentCount(_, _, _, _)
AdjacentCount(chunks, x, y, k) ==
  IF k > Len(chunks) THEN 0
  ELSE Cardinality({p \in 1..(Len(chunks[k]) - 1) :
                      chunks[k][p] = x /\ chunks[k][p + 1] = y})
         + AdjacentCount(chunks, x, y, k + 1)

\* the count that a statistics Map holds for the pair (x, y)
StatCount(counts, x, y) ==
  IF MapHas(counts, pack(x, y)) THEN MapGet(counts, pack(x, y)).count ELSE 0

\* C5: the count that get_stats accumulates over a list of chunks for a pair
\* (x, y) is the number of positions 0..L-2 of a chunk at which x is followed by
\* y, summed over the chunks.
C5_StatsCountAdjacentPairs ==
  pc = "counted"
    => \A x \in {97, 98}, y \in {97, 98} :
         StatCount(stats, x, y) = AdjacentCount(tokenChunks, x, y, 1)

\* the tokens that chunk k holds now: the chunk in work lives in tokens
CurrentChunk(k) == IF pc = "merging" /\ k = i + 1 THEN tokens ELSE tokenChunks[k]

\* C6: during train and during encode_ordinary there are as many token chunks as
\* string chunks, and the tokens of chunk k stand for the bytes of string chunk k.
C6_ChunkIsolation ==
  pc \in {"training", "encoding", "merging"}
    => /\ Len(tokenChunks) = Len(stringChunks)
       /\ vocab # <<>>
            => \A k \in 1..Len(tokenChunks) :
                 Expand(vocab, CurrentChunk(k)) = Utf8Encode(stringChunks[k])

\* encode_ordinary has merged tokens of the second of several chunks
C6_MergedInSecondChunk ==
  /\ pc = "merging"
  /\ i >= 1
  /\ Len(tokens) < Len(tokenChunks[i + 1])
  /\ Len(tokenChunks[1]) < Len(Utf8Encode(stringChunks[1]))

\* the registered literal that the split of the specification recognises at
\* position p of s: the longest that occurs there; 0 for none
LongestAt(table, s, p) ==
  LET here == {k \in 1..Len(table) : OccursAt(s, table[k][1], p)}
  IN IF here = {} THEN 0
     ELSE CHOOSE k \in here : \A j \in here : Len(table[j][1]) <= Len(table[k][1])

\* the first position from p at which a registered literal occurs, Len(s) + 1
\* for none
SpanEnd(table, s, p) ==
  LET at == {q \in p..Len(s) : LongestAt(table, s, q) # 0}
  IN IF at = {} THEN Len(s) + 1 ELSE CHOOSE q \in at : \A r \in at : q <= r

\* the splice of the specification from position p: one chunk with the reserved
\* id for every special span, encode_ordinary of every span between them
RECURSIVE Splice(_, _, _, _, _)
Splice(rx, mrg, table, s, p) ==
  IF p > Len(s) THEN <<>>
  ELSE LET k == LongestAt(table, s, p) IN
    IF k # 0
    THEN <<<<table[k][2]>>>> \o Splice(rx, mrg, table, s, p + Len(table[k][1]))
    ELSE encode_ordinary(rx, mrg, Slice(s, p, SpanEnd(table, s, p) - 1))
           \o Splice(rx, mrg, table, s, SpanEnd(table, s, p))

\* whether the pattern covers every span of s between special literals, from p
RECURSIVE SpansCovered(_, _, _, _)
SpansCovered(rx, table, s, p) ==
  IF p > Len(s) THEN TRUE
  ELSE LET k == LongestAt(table, s, p) IN
    IF k # 0 THEN SpansCovered(rx, table, s, p + Len(table[k][1]))
    ELSE /\ Covered(rx, Slice(s, p, SpanEnd(table, s, p) - 1))
         /\ SpansCovered(rx, table, s, SpanEnd(table, s, p))

\* C7: encode(s, 'all') of a registered literal s is one chunk with the one
\* reserved id of s, and encode(t, 'none_raise') throws for every text t that
\* contains a registered literal.
C7_SpecialPriority ==
  pc = "idle" /\ op = "encode"
    => /\ mode = ModeAll /\ MapHas(special_tokens, text)
            => err = "none" /\ encoded = <<<<MapGet(special_tokens, text)>>>>
       /\ mode = ModeNoneRaise
            /\ (\E k \in 1..Len(special_tokens) : Includes(text, special_tokens[k][1]))
            => err = "Error"

\* C8: encode(T, 'all') is the splice of T, in order: the reserved id for every
\* special literal and encode_ordinary of every span between them; and decode
\* of it is T when the pattern covers the spans.
C8_SpecialSplicing ==
  /\ pc = "idle" /\ op = "encode" /\ mode = ModeAll
       => err = "none" /\ encoded = Splice(regex, merges, special_tokens, text, 1)
  /\ pc = "idle" /\ op = "decode" /\ mode = ModeAll /\ arg = encoded
       /\ trainEnd \in {"return", "break"}
       /\ SpansCovered(regex, special_tokens, text, 1)
       => err = "none" /\ decoded = text

\* the entries of a table whose literal is one of names
Named(table, names) ==
  SelectSeq(table, LAMBDA e : \E k \in 1..Len(names) : names[k] = e[1])

\* C9: encode(text, S) throws, with no output, when a name of S is not
\* registered; otherwise it is the splice of text by the literals named in S
\* alone, so that no id of a literal outside S is in it.
C9_ExplicitSet ==
  pc = "idle" /\ op = "encode" /\ mode.kind = "set"
    => IF \E k \in 1..Len(mode.names) : ~MapHas(special_tokens, mode.names[k])
       THEN err = "Error" /\ encoded = <<>>
       ELSE /\ err = "none"
            /\ encoded = Splice(regex, merges, Named(special_tokens, mode.names), text, 1)

\* whether idx is a byte, a learned merge id or the id of a registered literal
Resolves(idx) ==
  \/ idx \in 0..(BaseVocab - 1)
  \/ \E k \in 1..Len(merges) : merges[k][1] = idx
  \/ \E k \in 1..Len(special_tokens) : special_tokens[k][2] = idx

\* C10: decode throws, and returns no text, for every argument with a token id
\* that is neither a vocabulary id nor the id of a registered special literal.
C10_UnknownTokenRaises ==
  pc = "idle" /\ op = "decode"
       /\ (\E k \in 1..Len(arg) : \E j \in 1..Len(arg[k]) : ~Resolves(arg[k][j]))
    => err = "Error" /\ decoded = <<>>

\* C11: an instance of any class has a vocabulary size above 256, so that train
\* never runs with a merge budget of zero or less, and a RegexTokenizer has a
\* global pattern.
C11_ConstructionValidates ==
  pc # "none"
    => /\ vocab_size > BaseVocab
       /\ variant = "RegexTokenizer" => HasGlobalFlag(regex)

\* C12: after every construction or registration the inverse table holds exactly
\* the ids of the table registered last, so that an id registered before and
\* absent from that table is no longer decoded.
C12_InverseMatchesTable ==
  pc = "idle"
    => {inverse_special_tokens[k][1] : k \in 1..Len(inverse_special_tokens)}
         = {special_tokens[k][2] : k \in 1..Len(special_tokens)}

\* a class that keeps a vocabulary, during or after a call of train
VocabularyInUse ==
  /\ variant = "RegexTokenizer" \/ HasVocab(variant)
  /\ pc \in {"training", "basic_training"} \/ trainEnd # "none"

\* C13: during and after training the vocabulary has the 256 one-byte entries
\* and one entry for each learned rule and no other; the two ids of a rule are
\* smaller than its own id and in the vocabulary, and the entry of the rule is
\* the entry of its left id followed by the entry of its right id.
C13_VocabularyInvariant ==
  VocabularyInUse
    => /\ DOMAIN vocab = 0..(BaseVocab + Len(merges) - 1)
       /\ \A b \in 0..(BaseVocab - 1) : vocab[b] = <<b>>
       /\ \A k \in 1..Len(merges) :
            LET m == merges[k][1]
                l == merges[k][2][1]
                r == merges[k][2][2]
            IN /\ l < m /\ r < m
               /\ {l, r, m} \subseteq DOMAIN vocab
               /\ vocab[m] = vocab[l] \o vocab[r]

\* a second rule was learned whose pair holds the id of the first rule
C13_RuleBuiltOnRule ==
  /\ VocabularyInUse
  /\ Len(merges) = 2
  /\ BaseVocab \in {merges[2][2][1], merges[2][2][2]}

\* decode(encode(text)) has ended on a tokenizer without chunks whose train has
\* returned
BasicRoundTripCall ==
  /\ variant \in Variants
  /\ pc = "ready" /\ op = "decode" /\ arg = encoded
  /\ trainEnd \in {"return", "break"}

\* C14, as the specification states it: on a trained tokenizer without chunks
\* decode(encode(T)) returns T for every text T, the empty text and texts that
\* are not the training text included.
C14_RoundTripAnyText == BasicRoundTripCall => err = "none" /\ decoded = text

\* C14, amended: on a trained tokenizer without chunks decode(encode(T)) returns
\* T for every text T that has no lone surrogate and does not start with U+FEFF,
\* the empty text and texts that are not the training text included.
C14_RoundTripWellFormed ==
  BasicRoundTripCall /\ WellFormed(text) /\ NoLeadingMark(text)
    => err = "none" /\ decoded = text

\* a text that is not the training text came back from a round trip through a
\* merged token
C14_RoundTripOfOtherText ==
  /\ BasicRoundTripCall
  /\ text # corpus
  /\ \E k \in 1..Len(encoded) : encoded[k] >= BaseVocab
  /\ decoded = text

\* the rules that the loop of train learns from chunks on an instance that has
\* learned nothing, from round n on
RECURSIVE FreshMerges(_, _, _, _)
FreshMerges(chunks, budget, n, mrg) ==
  LET top == get_top_pairs(TrainStats(chunks), 1)
  IN IF ~(n < budget) \/ top = <<>> THEN mrg
     ELSE IF top[1].count < 2 THEN mrg
     ELSE FreshMerges([j \in 1..Len(chunks) |-> replace(chunks[j], top[1].arr, MergeIdx(n))],
                      budget, n + 1, Append(mrg, <<MergeIdx(n), top[1].arr>>))

\* the vocabulary that these rules build, from rule k on
RECURSIVE FreshVocab(_, _, _)
FreshVocab(mrg, v, k) ==
  IF k > Len(mrg) THEN v
  ELSE FreshVocab(mrg, VocabSet(v, mrg[k][1], mrg[k][2]), k + 1)

\* the chunks that train makes of the last training text
FreshChunks ==
  IF variant = "RegexTokenizer" THEN EncodeChunks(MatchAll(regex, corpus))
  ELSE <<Utf8Encode(corpus)>>

\* what a new instance of the same configuration learns from the last training
\* text
FreshResult == FreshMerges(FreshChunks, vocab_size - BaseVocab, 0, <<>>)

\* C15: when train has ended, the first time or again, the instance holds
\* exactly the rules and the vocabulary that a new instance of the same
\* configuration learns from the same text; nothing of an earlier training is
\* left.
C15_RetrainResets ==
  trainEnd # "none"
    => /\ CodecMerges(variant, merges) = FreshResult
       /\ VocabularyInUse => vocab = FreshVocab(FreshResult, BaseVocabulary, 1)

\* C16: a table that binds two literals to one id is never taken: the table of
\* an instance has a different id for every literal, and so has its inverse
\* table an entry for every literal.
C16_MalformedTableRejected ==
  pc = "idle"
    => /\ \A j, k \in 1..Len(special_tokens) :
            special_tokens[j][2] = special_tokens[k][2] => j = k
       /\ \A k \in 1..Len(special_tokens) :
            /\ MapHas(inverse_special_tokens, special_tokens[k][2])
            /\ MapGet(inverse_special_tokens, special_tokens[k][2])
                 = Utf8Encode(special_tokens[k][1])

\* the chunks that the last encode_ordinary, or the last encode of a class
\* without chunks, returned
ReturnedChunks == IF variant \in Variants THEN <<encoded>> ELSE encoded

\* encode_ordinary, or encode of a class without chunks, has returned
EncodeReturned ==
  \/ pc = "idle" /\ op = "encode_ordinary"
  \/ pc = "ready" /\ op = "encode" /\ variant \in Variants

\* whether the tokens x, y are the pair of a learned rule
IsRule(x, y) == \E m \in 1..Len(merges) : merges[m][2] = <<x, y>>

\* C17: when encode_ordinary, or encode of a class without chunks, has returned,
\* no chunk of what it returned has two adjacent tokens that are the pair of a
\* learned rule.
C17_EncodeFixedPoint ==
  EncodeReturned
    => \A c \in 1..Len(ReturnedChunks) :
         \A k \in 1..(Len(ReturnedChunks[c]) - 1) :
           ~IsRule(ReturnedChunks[c][k], ReturnedChunks[c][k + 1])

\* the ids of the learned rules whose pair is two adjacent tokens somewhere in
\* toks
RulesPresent(toks) ==
  {merges[m][1] : m \in {n \in 1..Len(merges) :
      \E k \in 1..(Len(toks) - 1) : merges[n][2] = <<toks[k], toks[k + 1]>>}}

\* the pair of the rule with the lowest id of ids
LowestRule(ids) ==
  LET best == CHOOSE x \in ids : \A y \in ids : x <= y
      m == CHOOSE n \in 1..Len(merges) : merges[n][1] = best
  IN [pair |-> merges[m][2], idx |-> best]

\* a step of the loop of encode that applies a rule to the chunk
AppliesRule == pc \in {"merging", "basic_merging"} /\ tokens' # tokens

\* C18: every step of encode that applies a rule applies the rule with the
\* lowest id among all learned rules whose pair is two adjacent tokens anywhere
\* in the chunk as it is before the step.
C18_EncodePriority ==
  [][AppliesRule
       => /\ RulesPresent(tokens) # {}
          /\ tokens' = replace(tokens, LowestRule(RulesPresent(tokens)).pair,
                               LowestRule(RulesPresent(tokens)).idx)]_vars

\* the places <<chunk, index>> at which x is followed by y in chunks
PlacesOf(chunks, x, y) ==
  UNION {{<<c, k>> : k \in {j \in 1..(Len(chunks[c]) - 1) :
                              chunks[c][j] = x /\ chunks[c][j + 1] = y}} :
         c \in 1..Len(chunks)}

\* whether place p comes before place q, or is q, in a scan of the chunks from
\* left to right
NotAfter(p, q) == p[1] < q[1] \/ (p[1] = q[1] /\ p[2] <= q[2])

\* whether x is followed by y somewhere in chunks before u is followed by v
\* anywhere
EncounteredFirst(chunks, x, y, u, v) ==
  \E p \in PlacesOf(chunks, x, y) : \A q \in PlacesOf(chunks, u, v) : NotAfter(p, q)

\* a step of train that learns a rule
LearnsRule == pc \in {"training", "basic_training"} /\ Len(merges') = Len(merges) + 1

\* the chunks that train holds before the step
WorkingChunks == IF pc = "training" THEN tokenChunks ELSE <<tokens>>

\* C19: the pair of every rule that train learns has the greatest count of the
\* statistics of that round, and no other pair with that count is met before it
\* in a scan of the chunks from left to right.
C19_TieBreakByEncounter ==
  [][LearnsRule
       => LET sel == merges'[Len(merges')][2]
              top == StatCount(stats', sel[1], sel[2])
          IN /\ \A e \in 1..Len(stats') : stats'[e][2].count <= top
             /\ \A e \in 1..Len(stats') :
                  stats'[e][2].count = top
                    => EncounteredFirst(WorkingChunks, sel[1], sel[2],
                                        stats'[e][2].arr[1], stats'[e][2].arr[2])]_vars

\* whether the pair is at index p of toks
PairAt(toks, pair, p) == p < Len(toks) /\ toks[p] = pair[1] /\ toks[p + 1] = pair[2]

\* whether a pass from left to right replaces the pair at index p: the pair is
\* there, and of the unbroken run of indices with the pair that ends just before
\* p every second one was replaced, the last of them not
ReplacedAt(toks, pair, p) ==
  /\ PairAt(toks, pair, p)
  /\ Cardinality({q \in 1..(p - 1) : \A r \in q..(p - 1) : PairAt(toks, pair, r)}) % 2 = 0

\* the indices of toks that the pass replaces
Replacements(toks, pair) == {p \in 1..Len(toks) : ReplacedAt(toks, pair, p)}

\* toks with id for every replaced pair and every other token copied
PassResult(toks, pair, id) ==
  Flatten([p \in 1..Len(toks) |->
             IF p \in Replacements(toks, pair) THEN <<id>>
             ELSE IF (p - 1) \in Replacements(toks, pair) THEN <<>>
             ELSE <<toks[p]>>])

\* C20: replace(tokens, (x, y), id) returns the tokens with id in place of every
\* occurrence of x, y that a pass from left to right meets and that does not
\* overlap the occurrence replaced before it, every other token copied in order;
\* its length is the length of the tokens less the number of replacements, and
\* when id is neither x nor y it has no x followed by y.
C20_ReplacePass ==
  pc = "replaced"
    => LET toks == tokenChunks[1]
           pair == tokenChunks[2]
           id == tokenChunks[3][1]
       IN /\ tokens = PassResult(toks, pair, id)
          /\ Len(tokens) = Len(toks) - Cardinality(Replacements(toks, pair))
          /\ id \notin {pair[1], pair[2]}
               => \A p \in 1..Len(tokens) : ~PairAt(tokens, pair, p)

\* replace(a a a, (a, a), 256) has returned 256 a
C20_RunOfThree ==
  /\ pc = "replaced"
  /\ tokenChunks = <<<<97, 97, 97>>, <<97, 97>>, <<BaseVocab>>>>
  /\ tokens = <<BaseVocab, 97>>

\* the rules that decode of the instance walks through
DecodeRules == CodecMerges(variant, merges)

\* the ids that have bytes: 0..255 and the ids of the rules
KnownIds == (0..(BaseVocab - 1)) \cup {DecodeRules[k][1] : k \in 1..Len(DecodeRules)}

\* decode(toks) has returned or thrown on a trained instance of a class without
\* chunks, for a token list over the known ids
DecodedKnown ==
  /\ variant \in Variants
  /\ pc = "ready" /\ op = "decode"
  /\ \A k \in 1..Len(arg) : arg[k] \in KnownIds

\* the bytes of reverse-merge splicing and of the expansion through a vocabulary
SplicedBytes == SpliceFrom(arg, DecodeRules, Len(DecodeRules))
ExpandedBytes == Expand(FreshVocab(DecodeRules, BaseVocabulary, 1), arg)

\* C21: for every token list over the ids 0..255 and the ids of the learned
\* rules, splicing the rules from the highest id to the lowest gives the bytes
\* that the expansion of each token through the vocabulary gives, and decode
\* returns the text of these bytes whichever of the two the class uses.
C21_DecodeStrategiesAgree ==
  DecodedKnown
    => /\ SplicedBytes = ExpandedBytes
       /\ HasVocab(variant) => vocab = FreshVocab(DecodeRules, BaseVocabulary, 1)
       /\ err = "none"
       /\ decoded = Utf8Decode(SplicedBytes)
       /\ decoded = Utf8Decode(ExpandedBytes)

\* a class that splices has decoded a token list with the id of a rule built on
\* another rule
C21_SplicedNestedRule ==
  /\ DecodedKnown
  /\ ~HasVocab(variant)
  /\ Len(DecodeRules) = 2
  /\ MergeIdx(0) \in {DecodeRules[2][2][1], DecodeRules[2][2][2]}
  /\ \E k \in 1..Len(arg) : arg[k] = MergeIdx(1)
  /\ Len(ExpandedBytes) > Len(arg) + 1

\* the bytes of the chunk that the loop of encode is at work on
ChunkBytes == IF pc = "merging" THEN tokenChunks[i + 1] ELSE Utf8Encode(text)

\* what the loop of encode finds as lowest in the chunk it is at work on
LoopLowest ==
  IF pc = "merging" THEN Lowest(tokens, merges) ELSE BasicLowest(variant, tokens, merges)

\* in the loop the chunk has at least one token and no more tokens than bytes,
\* and a rule that is found changes the chunk
LoopBounded ==
  InLoop => /\ Len(tokens) >= 1
            /\ Len(tokens) <= Len(ChunkBytes)
            /\ (LoopLowest # <<>>
                  => replace(tokens, LoopLowest[1].pair, LoopLowest[1].idx) # tokens)

\* an iteration that does not exit applies a learned rule whose pair is in the
\* chunk, and leaves the chunk shorter
LoopShortens ==
  InLoop /\ pc' = pc
    => \E m \in 1..Len(merges) :
         /\ \E p \in 1..Len(tokens) : PairAt(tokens, merges[m][2], p)
         /\ tokens' = replace(tokens, merges[m][2], merges[m][1])
         /\ Len(tokens') < Len(tokens)

\* C22: the loop of encode_ordinary and of encode ends for every chunk; an
\* iteration that does not exit applies a learned rule whose pair is in the
\* chunk and leaves the chunk shorter, and the chunk never has fewer tokens than
\* one nor more than its bytes, so that a chunk of L bytes takes at most L - 1
\* such iterations.
C22_EncodeTerminates ==
  /\ []LoopBounded
  /\ [][LoopShortens]_vars
  /\ InLoop ~> ~InLoop

\* the loop of encode has applied two rules to a chunk and is about to exit
C22_LoopRanTwice ==
  /\ InLoop
  /\ Len(tokens) + 2 <= Len(ChunkBytes)
  /\ \E k \in 1..Len(tokens) : tokens[k] = MergeIdx(1)
  /\ LoopLowest = <<>>

====
